---- MODULE Spec2Model ----
(***************************************************************************)
(* A model of pyyuv.py: the YuvFile class (raw planar YUV reader/writer,   *)
(* chroma upsampling, YUV -> 8-bit RGB conversion) and the main() driver.  *)
(*                                                                         *)
(* Representation choices                                                  *)
(*  - a file is a sequence of bytes (0..255); the file system `fs` maps a  *)
(*    file name to its content;                                            *)
(*  - a file object is [st, pos]: st is "none" (self.handle = None),       *)
(*    "open" or "closed"; pos is the byte offset of the stream;            *)
(*  - a numpy array is [shape, dtype, data] with data the row-major        *)
(*    flattening; integer dtypes wrap at their width;                      *)
(*  - float64 values are kept exactly, scaled by Milli (1.402 is 1402).    *)
(*  - the code is Python 2: "/" on two ints is floor division.             *)
(***************************************************************************)
EXTENDS Integers, Sequences, FiniteSets, TLC

VARIABLES
    fs,        \* file system: file name -> sequence of bytes
    codec,     \* the YuvFile object under test (NoObject before construction)
    ret,       \* outcome of the last method call on codec
    written,   \* frames written through the current write handle since open()
    readback,  \* frames returned by read_frame since open()
    wstat,     \* provenance of fs[FileName]: who wrote it, and whether intact
    conv,      \* to_rgb_8b: the inputs and every intermediate array
    mpc,       \* main(): program counter
    opts,      \* main(): parsed options
    handle,    \* main(): the input YuvFile
    ohandle,   \* main(): the output YuvFile, or NoObject
    frame,     \* main(): frame counter
    yuv,       \* main(): the frame last returned by read_frame
    closes     \* main(): per handle, whether open() succeeded and the close() calls

vars == <<fs, codec, ret, written, readback, wstat, conv,
          mpc, opts, handle, ohandle, frame, yuv, closes>>

codecVars == <<fs, codec, ret, written, readback, wstat>>
mainVars == <<mpc, opts, handle, ohandle, frame, yuv, closes>>

----------------------------------------------------------------------------
(* Program constants (pyyuv.py lines 11-14) *)
CSPACE_420 == 420
CSPACE_422 == 422
DEPTH_8 == 8
DEPTH_10 == 10

(* Bounds of the model *)
MaxFileLen == 15     \* longest pre-existing input file, in bytes
MaxFrames == 2       \* frames written through one handle
EdgeSpan == 1        \* samples tried around each edge of the sample range
MaxFileFrames == 2   \* main(): frames in the input file
MaxCount == 2        \* main(): largest -n / -f / -p option value
DiskRoom == 1000     \* bytes a device with free space accepts

(* Fixed-point scale of the float64 values *)
Milli == 1000

Min(a, b) == IF a < b THEN a ELSE b
Max(a, b) == IF a > b THEN a ELSE b

RECURSIVE Pow2(_)
Pow2(n) == IF n = 0 THEN 1 ELSE 2 * Pow2(n - 1)

----------------------------------------------------------------------------
(* numpy dtypes and arrays *)

ItemSize(dtype) ==
    CASE dtype = "uint8" -> 1
      [] dtype = "uint16" -> 2
      [] dtype = "int64" -> 8
      [] dtype = "float64" -> 8

\* The value an integer dtype stores for the mathematical result x.
Wrap(x, dtype) ==
    CASE dtype = "uint8" -> x % 256
      [] dtype = "uint16" -> x % 65536
      [] dtype = "int64" -> x      \* every value here is far below 2^63
      [] dtype = "float64" -> x

Array(shape, dtype, data) == [shape |-> shape, dtype |-> dtype, data |-> data]

Size(a) == Len(a.data)

\* a[r][c], 0-based, of a 2-D array
At(a, r, c) == a.data[r * a.shape[2] + c + 1]

\* np.empty([0, 0])
EmptyArray == Array(<<0, 0>>, "float64", <<>>)

ValueError == "ValueError"
IOError == "IOError"
AttributeError == "AttributeError"
NoError == "None"

\* a.reshape(shape): ValueError unless the sizes agree
Reshape(a, shape) ==
    IF Size(a) = shape[1] * shape[2]
    THEN [exc |-> NoError, val |-> Array(shape, a.dtype, a.data)]
    ELSE [exc |-> ValueError, val |-> EmptyArray]

----------------------------------------------------------------------------
(* The file object *)

NoHandle == [st |-> "none", pos |-> 0]

\* Little-endian bytes of one item
ToBytes(x, dtype) ==
    IF ItemSize(dtype) = 1 THEN <<x>> ELSE <<x % 256, x \div 256>>

\* The item stored at byte offset off (0-based) of content
FromBytes(content, off, dtype) ==
    IF ItemSize(dtype) = 1
    THEN content[off + 1]
    ELSE content[off + 1] + 256 * content[off + 2]

RECURSIVE Serialise(_, _)
Serialise(data, dtype) ==
    IF data = <<>> THEN <<>>
    ELSE ToBytes(Head(data), dtype) \o Serialise(Tail(data), dtype)

\* np.fromfile(handle, dtype, count): fread of up to count items from the
\* stream position; a short read returns the items obtained.  A stream that
\* is not readable (opened "wb") yields no item.
FromFile(content, h, mode, dtype, count) ==
    LET ew == ItemSize(dtype)
        avail == IF mode = "r" THEN Max(0, Len(content) - h.pos) ELSE 0
        nbytes == Min(count * ew, avail)
        n == nbytes \div ew
    IN [arr |-> Array(<<n>>, dtype,
                      [i \in 1..n |-> FromBytes(content, h.pos + (i - 1) * ew, dtype)]),
        pos |-> h.pos + nbytes]

\* a.tofile(handle): fwrite of the items in row-major order at the stream
\* position (a "wb" stream only ever appends).  room is the number of bytes
\* the device still accepts; a stream opened "rb" accepts none.  Fewer
\* bytes written than requested is an IOError.
ToFile(content, h, mode, a, room) ==
    LET bytes == Serialise(a.data, a.dtype)
        n == IF mode = "w" THEN Min(Len(bytes), room) ELSE 0
    IN [exc |-> IF n = Len(bytes) THEN NoError ELSE IOError,
        content |-> IF n = 0 THEN content
                    ELSE SubSeq(content, 1, h.pos) \o SubSeq(bytes, 1, n),
        pos |-> h.pos + n,
        room |-> room - n]

----------------------------------------------------------------------------
(* class YuvFile *)

NoObject == [name |-> "", mode |-> "", width |-> 0, height |-> 0,
             colour |-> 0, depth |-> 0, handle |-> NoHandle,
             h_smpl |-> 0, v_smpl |-> 0, dtype |-> "", round |-> 0,
             shift |-> 0, y_shape |-> <<0, 0>>, y_size |-> 0,
             uv_shape |-> <<0, 0>>, uv_size |-> 0]

\* Mutant of YuvFile: the chroma height is not divided by v_smpl
YuvFile_full_height_chroma(name, mode, width, height, colour, depth) ==
    LET ten == depth = DEPTH_10
    IN [name |-> name, mode |-> mode, width |-> width, height |-> height,
        colour |-> colour, depth |-> depth, handle |-> NoHandle,
        h_smpl |-> 2, v_smpl |-> IF colour = CSPACE_420 THEN 2 ELSE 1,
        dtype |-> IF ten THEN "uint16" ELSE "uint8",
        round |-> IF ten THEN 1 ELSE 0,
        shift |-> IF ten THEN 2 ELSE 0,
        y_shape |-> <<height, width>>, y_size |-> height * width,
        uv_shape |-> <<height, width \div 2>>,
        uv_size |-> height * (width \div 2)]

\* __init__: no argument is validated
YuvFile(name, mode, width, height, colour, depth) ==
    LET h_smpl == 2
        v_smpl == IF colour = CSPACE_420 THEN 2 ELSE 1
        ten == depth = DEPTH_10
        y_shape == <<height, width>>
        uv_shape == <<height \div v_smpl, width \div h_smpl>>
    IN [name |-> name, mode |-> mode, width |-> width, height |-> height,
        colour |-> colour, depth |-> depth, handle |-> NoHandle,
        h_smpl |-> h_smpl, v_smpl |-> v_smpl,
        dtype |-> IF ten THEN "uint16" ELSE "uint8",
        round |-> IF ten THEN 1 ELSE 0,
        shift |-> IF ten THEN 2 ELSE 0,
        y_shape |-> y_shape, y_size |-> y_shape[1] * y_shape[2],
        uv_shape |-> uv_shape, uv_size |-> uv_shape[1] * uv_shape[2]]

\* open(): the built-in open(name, mode + "b") succeeded; "wb" truncates
open(self, content) ==
    [self |-> [self EXCEPT !.handle = [st |-> "open", pos |-> 0]],
     content |-> IF self.mode = "w" THEN <<>> ELSE content]

\* Mutant of close: the file is left open
close_noop(self) ==
    IF self.handle.st = "none"
    THEN [exc |-> AttributeError, self |-> self]
    ELSE [exc |-> NoError, self |-> self]

\* close(): None has no close(); closing a closed file is a no-op.  A
\* closed file has no position.
close(self) ==
    IF self.handle.st = "none"
    THEN [exc |-> AttributeError, self |-> self]
    ELSE [exc |-> NoError,
          self |-> [self EXCEPT !.handle = [st |-> "closed", pos |-> 0]]]

\* The body of the try block of read_frame: three fromfile + reshape in
\* turn, the first exception skipping what follows.  np.fromfile raises
\* IOError ("first argument must be an open file") for None and for a
\* closed file.  got lists the item counts the reads obtained.
read_frame_try(self, content) ==
    LET h0 == self.handle
        fy == FromFile(content, h0, self.mode, self.dtype, self.y_size)
        ry == Reshape(fy.arr, self.y_shape)
        h1 == [h0 EXCEPT !.pos = fy.pos]
        fu == FromFile(content, h1, self.mode, self.dtype, self.uv_size)
        ru == Reshape(fu.arr, self.uv_shape)
        h2 == [h0 EXCEPT !.pos = fu.pos]
        fv == FromFile(content, h2, self.mode, self.dtype, self.uv_size)
        rv == Reshape(fv.arr, self.uv_shape)
        h3 == [h0 EXCEPT !.pos = fv.pos]
        raised(e, h, got) == [exc |-> e, y |-> EmptyArray, u |-> EmptyArray,
                              v |-> EmptyArray, handle |-> h, got |-> got]
    IN IF h0.st # "open" THEN raised(IOError, h0, <<>>)
       ELSE IF ry.exc # NoError THEN raised(ry.exc, h1, <<Size(fy.arr)>>)
       ELSE IF ru.exc # NoError
            THEN raised(ru.exc, h2, <<Size(fy.arr), Size(fu.arr)>>)
       ELSE IF rv.exc # NoError
            THEN raised(rv.exc, h3, <<Size(fy.arr), Size(fu.arr), Size(fv.arr)>>)
       ELSE [exc |-> NoError, y |-> ry.val, u |-> ru.val, v |-> rv.val,
             handle |-> h3,
             got |-> <<Size(fy.arr), Size(fu.arr), Size(fv.arr)>>]

\* Mutant of read_frame: the ValueError of a short read is not caught
read_frame_uncaught(self, content) == read_frame_try(self, content)

\* read_frame(): a ValueError raised in the try block yields three empty
\* arrays; any other exception propagates
read_frame(self, content) ==
    LET t == read_frame_try(self, content)
    IN IF t.exc = ValueError THEN [t EXCEPT !.exc = NoError] ELSE t

\* Mutant of write_frame: the V plane is written before the U plane
write_frame_vu(self, content, y, u, v, room) ==
    LET h0 == self.handle
        wy == ToFile(content, h0, self.mode, y, room)
        h1 == [h0 EXCEPT !.pos = wy.pos]
        wv == ToFile(wy.content, h1, self.mode, v, wy.room)
        h2 == [h0 EXCEPT !.pos = wv.pos]
        wu == ToFile(wv.content, h2, self.mode, u, wv.room)
        h3 == [h0 EXCEPT !.pos = wu.pos]
    IN IF h0.st # "open"
       THEN [exc |-> IOError, content |-> content, handle |-> h0]
       ELSE IF wy.exc # NoError
            THEN [exc |-> wy.exc, content |-> wy.content, handle |-> h1]
       ELSE IF wv.exc # NoError
            THEN [exc |-> wv.exc, content |-> wv.content, handle |-> h2]
       ELSE [exc |-> wu.exc, content |-> wu.content, handle |-> h3]

\* write_frame(): three tofile in turn; the first IOError skips the rest.
\* ndarray.tofile raises IOError for None and for a closed file.
write_frame(self, content, y, u, v, room) ==
    LET h0 == self.handle
        wy == ToFile(content, h0, self.mode, y, room)
        h1 == [h0 EXCEPT !.pos = wy.pos]
        wu == ToFile(wy.content, h1, self.mode, u, wy.room)
        h2 == [h0 EXCEPT !.pos = wu.pos]
        wv == ToFile(wu.content, h2, self.mode, v, wu.room)
        h3 == [h0 EXCEPT !.pos = wv.pos]
    IN IF h0.st # "open"
       THEN [exc |-> IOError, content |-> content, handle |-> h0]
       ELSE IF wy.exc # NoError
            THEN [exc |-> wy.exc, content |-> wy.content, handle |-> h1]
       ELSE IF wu.exc # NoError
            THEN [exc |-> wu.exc, content |-> wu.content, handle |-> h2]
       ELSE [exc |-> wv.exc, content |-> wv.content, handle |-> h3]

----------------------------------------------------------------------------
(* numpy arithmetic used by upsample_chroma and to_rgb_8b *)

\* dtype of (array of d1) op (array of d2)
ResultType(d1, d2) ==
    IF "float64" \in {d1, d2} THEN "float64"
    ELSE IF "int64" \in {d1, d2} THEN "int64"
    ELSE IF "uint16" \in {d1, d2} THEN "uint16"
    ELSE "uint8"

\* np.kron(a, b) of two 2-D arrays: the block matrix of a[i][j] * b, the
\* product taken in the result type of the two arrays
Kron(a, b) ==
    LET rows == a.shape[1] * b.shape[1]
        cols == a.shape[2] * b.shape[2]
        dt == ResultType(a.dtype, b.dtype)
    IN Array(<<rows, cols>>, dt,
             [i \in 1..(rows * cols) |->
                LET r == (i - 1) \div cols
                    c == (i - 1) % cols
                IN Wrap(At(a, r \div b.shape[1], c \div b.shape[2])
                        * At(b, r % b.shape[1], c % b.shape[2]), dt)])

\* the list [1,1] as kron sees it beside a 2-D array, and [[1],[1]]
OnesRow == Array(<<1, 2>>, "int64", <<1, 1>>)
OnesCol == Array(<<2, 1>>, "int64", <<1, 1>>)

\* a + k and a - k for an integer array and a small Python int: the array
\* keeps its dtype and the result wraps at its width
AddInt(a, k) ==
    Array(a.shape, a.dtype, [i \in 1..Size(a) |-> Wrap(a.data[i] + k, a.dtype)])

SubInt(a, k) ==
    Array(a.shape, a.dtype, [i \in 1..Size(a) |-> Wrap(a.data[i] - k, a.dtype)])

\* np.right_shift(a, k)
RightShift(a, k) ==
    Array(a.shape, a.dtype, [i \in 1..Size(a) |-> a.data[i] \div Pow2(k)])

\* the float64 view of an array (values scaled by Milli)
AsFloat(a) ==
    IF a.dtype = "float64" THEN a
    ELSE Array(a.shape, "float64", [i \in 1..Size(a) |-> a.data[i] * Milli])

\* k * a for a Python float k (given in thousandths) and an integer array
MulFloat(kMilli, a) ==
    Array(a.shape, "float64", [i \in 1..Size(a) |-> kMilli * a.data[i]])

\* a + b and a - b where one side is float64; both shapes must agree
AddF(a, b) ==
    Array(a.shape, "float64",
          [i \in 1..Size(a) |-> AsFloat(a).data[i] + AsFloat(b).data[i]])

SubF(a, b) ==
    Array(a.shape, "float64",
          [i \in 1..Size(a) |-> AsFloat(a).data[i] - AsFloat(b).data[i]])

\* Mutant of Clip: the upper limit is not applied
Clip_no_upper(a, lo, hi) ==
    Array(a.shape, a.dtype, [i \in 1..Size(a) |-> Max(lo * Milli, a.data[i])])

\* np.clip(a, lo, hi) of a float64 array, lo and hi Python ints
Clip(a, lo, hi) ==
    Array(a.shape, a.dtype,
          [i \in 1..Size(a) |-> Max(lo * Milli, Min(hi * Milli, a.data[i]))])

\* Mutant of upsample_chroma: the vertical stretch is applied in both modes
upsample_chroma_always_vertical(self, p) ==
    Kron(Kron(p, OnesRow), OnesCol)

\* Mutant of upsample_chroma: the result is cast back to the dtype of p
upsample_chroma_astype(self, p) ==
    LET q == IF self.colour = CSPACE_420
             THEN Kron(Kron(p, OnesRow), OnesCol) ELSE Kron(p, OnesRow)
    IN Array(q.shape, p.dtype, q.data)

\* __upsample_chroma
upsample_chroma(self, p) ==
    LET q == Kron(p, OnesRow)
    IN IF self.colour = CSPACE_420 THEN Kron(q, OnesCol) ELSE q

\* to_rgb_8b; every intermediate array is kept.  Arrays of different
\* shapes do not broadcast here: ValueError.
to_rgb_8b(self, y, u, v) ==
    LET cb == upsample_chroma(self, u)
        cr == upsample_chroma(self, v)
        y8 == RightShift(AddInt(y, self.round), self.shift)
        cb8 == RightShift(AddInt(cb, self.round), self.shift)
        cr8 == RightShift(AddInt(cr, self.round), self.shift)
        dcb == SubInt(cb8, Pow2(7))
        dcr == SubInt(cr8, Pow2(7))
        r == Clip(AddF(y8, MulFloat(1402, dcr)), 0, Pow2(8) - 1)
        g == Clip(SubF(SubF(y8, MulFloat(344, dcb)), MulFloat(714, dcr)),
                  0, Pow2(8) - 1)
        b == Clip(AddF(y8, MulFloat(1772, dcb)), 0, Pow2(8) - 1)
        ok == cb.shape = y.shape /\ cr.shape = y.shape
    IN [exc |-> IF ok THEN NoError ELSE ValueError,
        cb |-> cb, cr |-> cr, y8 |-> y8, cb8 |-> cb8, cr8 |-> cr8,
        r |-> IF ok THEN r ELSE EmptyArray,
        g |-> IF ok THEN g ELSE EmptyArray,
        b |-> IF ok THEN b ELSE EmptyArray]

----------------------------------------------------------------------------
(* The conversion on its own: to_rgb_8b applied to frames whose samples    *)
(* sit at the edges of the sample range of the bit depth.                  *)

Idle == [stage |-> "idle"]

\* Sample values tried at a bit depth: the bottom of the range, the values
\* around the chroma mid-point, the top of the range, and black level 16.
NVals == 4 * EdgeSpan + 5

ValAt(depth, j) ==
    LET scale == Pow2(depth - 8)
        top == Pow2(depth) - 1
        mid == Pow2(depth - 1)
    IN IF j <= EdgeSpan THEN j
       ELSE IF j <= 3 * EdgeSpan + 2 THEN mid - EdgeSpan - 1 + (j - EdgeSpan - 1)
       ELSE IF j <= 4 * EdgeSpan + 3 THEN top - EdgeSpan + (j - 3 * EdgeSpan - 3)
       ELSE 16 * scale

\* A plane whose i-th sample is the (k+i)-th value tried
EdgePlane(shape, dtype, depth, k) ==
    Array(shape, dtype,
          [i \in 1..(shape[1] * shape[2]) |-> ValAt(depth, (k + i - 1) % NVals)])

ValidArgs ==
    {<<w, h, c, d>> : w \in {2, 4}, h \in {2, 4},
                      c \in {CSPACE_420, CSPACE_422}, d \in {DEPTH_8, DEPTH_10}}

InitRgb ==
    /\ \E a \in ValidArgs, ky, ku, kv \in 0..(NVals - 1) :
          LET self == YuvFile("in.yuv", "r", a[1], a[2], a[3], a[4])
          IN conv = [stage |-> "in", self |-> self,
                     y |-> EdgePlane(self.y_shape, self.dtype, self.depth, ky),
                     u |-> EdgePlane(self.uv_shape, self.dtype, self.depth, ku),
                     v |-> EdgePlane(self.uv_shape, self.dtype, self.depth, kv)]
    /\ fs = <<>> /\ codec = NoObject /\ ret = Idle /\ written = <<>>
    /\ readback = <<>> /\ wstat = Idle
    /\ mpc = "idle" /\ opts = Idle /\ handle = NoObject /\ ohandle = NoObject
    /\ frame = 0 /\ yuv = Idle /\ closes = Idle

ToRgb8b ==
    /\ conv.stage = "in"
    /\ conv' = [stage |-> "out", self |-> conv.self,
                y |-> conv.y, u |-> conv.u, v |-> conv.v,
                out |-> to_rgb_8b(conv.self, conv.y, conv.u, conv.v)]
    /\ UNCHANGED <<codecVars, mainVars>>

NextRgb == ToRgb8b

SpecRgb == InitRgb /\ [][NextRgb]_vars

----------------------------------------------------------------------------
(* Properties of the conversion (checked under SpecRgb) *)

Converted == conv.stage = "out"

Rows == 0..(conv.self.height - 1)
Cols == 0..(conv.self.width - 1)
VFactor == IF conv.self.colour = CSPACE_420 THEN 2 ELSE 1
ClipMilli(x) == Max(0, Min(255 * Milli, x))

\* C4: upsample_chroma returns a plane of the luma shape H x W with
\* q[r][c] = p[r div v][c div 2], v = 2 for 4:2:0 and 1 for 4:2:2.
C4_UpsampleReplicates ==
    Converted =>
      \A pq \in {<<conv.u, conv.out.cb>>, <<conv.v, conv.out.cr>>} :
        /\ pq[2].shape = <<conv.self.height, conv.self.width>>
        /\ \A r \in Rows, c \in Cols :
              At(pq[2], r, c) = At(pq[1], r \div VFactor, c \div 2)

\* A 4:2:2 plane of two or more rows whose rows differ has been upsampled
C4_Witness ==
    /\ Converted
    /\ conv.self.colour = CSPACE_422
    /\ conv.self.height = 4 /\ conv.self.width = 4
    /\ At(conv.u, 0, 0) # At(conv.u, 1, 0)
    /\ At(conv.u, 0, 0) # At(conv.u, 0, 1)

\* 8-bit-scale value of a pixel: the sample itself at 8-bit depth, the
\* normalised sample at 10-bit depth
Y8(r, c) ==
    IF conv.self.depth = DEPTH_8 THEN At(conv.y, r, c) ELSE At(conv.out.y8, r, c)
Cb8(r, c) ==
    IF conv.self.depth = DEPTH_8 THEN At(conv.u, r \div VFactor, c \div 2)
    ELSE At(conv.out.cb8, r, c)
Cr8(r, c) ==
    IF conv.self.depth = DEPTH_8 THEN At(conv.v, r \div VFactor, c \div 2)
    ELSE At(conv.out.cr8, r, c)

\* C3: for every pixel whose 8-bit-scale values Y8, Cb8, Cr8 lie in 0..255,
\* R = clip(Y8 + 1.402 (Cr8 - 128)), G = clip(Y8 - 0.344 (Cb8 - 128)
\* - 0.714 (Cr8 - 128)), B = clip(Y8 + 1.772 (Cb8 - 128)), the differences
\* signed; Cb8 = Cr8 = 128 gives R = G = B = Y8.
C3_FixedTransform ==
    Converted =>
      /\ conv.out.exc = NoError
      /\ \A r \in Rows, c \in Cols :
           LET yy == Y8(r, c)
               cb == Cb8(r, c)
               cr == Cr8(r, c)
           IN (yy \in 0..255 /\ cb \in 0..255 /\ cr \in 0..255) =>
                /\ At(conv.out.r, r, c) = ClipMilli(yy * Milli + 1402 * (cr - 128))
                /\ At(conv.out.g, r, c) =
                     ClipMilli(yy * Milli - 344 * (cb - 128) - 714 * (cr - 128))
                /\ At(conv.out.b, r, c) = ClipMilli(yy * Milli + 1772 * (cb - 128))
                /\ (cb = 128 /\ cr = 128) =>
                     /\ At(conv.out.r, r, c) = yy * Milli
                     /\ At(conv.out.g, r, c) = yy * Milli
                     /\ At(conv.out.b, r, c) = yy * Milli

\* An 8-bit frame with chroma below 128 at pixel (0,0), not clipped to 0 or
\* 255 in any channel, has been converted
C3_Witness ==
    /\ Converted
    /\ conv.self.depth = DEPTH_8
    /\ At(conv.y, 0, 0) = 128
    /\ At(conv.u, 0, 0) = 127 /\ At(conv.v, 0, 0) = 126
    /\ At(conv.out.r, 0, 0) = 128 * Milli - 2 * 1402
    /\ At(conv.out.b, 0, 0) = 128 * Milli - 1772

\* C8: every R, G, B value lies in [0, 255] and the three output planes
\* have the luma shape, for every sample representable at the bit depth.
C8_Clipped ==
    Converted =>
      \A a \in {conv.out.r, conv.out.g, conv.out.b} :
        /\ a.shape = <<conv.self.height, conv.self.width>>
        /\ Size(a) = conv.self.height * conv.self.width
        /\ \A i \in 1..Size(a) : a.data[i] >= 0 /\ a.data[i] <= 255 * Milli

\* The extreme 8-bit input Y = Cb = Cr = 255 has been converted and clamped
C8_Witness ==
    /\ Converted
    /\ conv.self.depth = DEPTH_8
    /\ At(conv.y, 0, 0) = 255 /\ At(conv.u, 0, 0) = 255 /\ At(conv.v, 0, 0) = 255
    /\ At(conv.out.r, 0, 0) = 255 * Milli
    /\ At(conv.out.b, 0, 0) = 255 * Milli

\* The normalisation (sample + round) >> shift of one plane, as claimed
NormalisedAsClaimed(inp, outp) ==
    \A i \in 1..Size(inp) :
      IF conv.self.depth = DEPTH_10
      THEN /\ conv.self.round = 1 /\ conv.self.shift = 2
           /\ inp.data[i] + 1 < Pow2(16)
           /\ outp.data[i] = (inp.data[i] + 1) \div 4
           /\ outp.data[i] \in 0..255
      ELSE /\ conv.self.round = 0 /\ conv.self.shift = 0
           /\ outp.data[i] = inp.data[i]

\* C10: sample8 = (sample + round) >> shift, (round, shift) = (0, 0) at
\* 8-bit and (1, 2) at 10-bit; an 8-bit sample is unchanged and every 10-bit
\* sample in 0..1023 normalises into 0..255 without wrapping in 16 bits.
C10_NormalisedTo8Bit ==
    Converted =>
      /\ NormalisedAsClaimed(conv.y, conv.out.y8)
      /\ NormalisedAsClaimed(conv.out.cb, conv.out.cb8)
      /\ NormalisedAsClaimed(conv.out.cr, conv.out.cr8)

----------------------------------------------------------------------------
(* The YuvFile object and its file: any caller, any order of calls *)

FileName == "f.yuv"

\* np.size(y) is 0 for the three empty arrays read_frame returns at the end
IsSentinel(y, u, v) == y = EmptyArray /\ u = EmptyArray /\ v = EmptyArray

Outcome(op, exc, kind) ==
    [op |-> op, exc |-> exc, kind |-> kind, y |-> EmptyArray, u |-> EmptyArray,
     v |-> EmptyArray, got |-> <<>>]

\* Constructor arguments tried: three valid geometries (both chroma modes,
\* both depths, and the 4x2 4:2:0 8-bit frame of 12 bytes), an odd width,
\* and a colour and depth outside the supported sets
IoArgs ==
    {<<2, 2, CSPACE_420, DEPTH_8>>, <<4, 2, CSPACE_420, DEPTH_8>>,
     <<2, 2, CSPACE_422, DEPTH_10>>,
     <<3, 2, CSPACE_420, DEPTH_8>>, <<2, 2, 444, 12>>}

Cfg(self) == <<self.width, self.height, self.colour, self.depth>>

\* The frames a caller passes to write_frame: planes of the object's shapes
\* and dtype, every sample different from its neighbours
PatSample(seed, plane, i, dtype) ==
    LET x == seed * 61 + plane * 17 + i * 5
    IN IF dtype = "uint16" THEN (x * 263) % 65536 ELSE x % 256

PatPlane(shape, dtype, seed, plane) ==
    Array(shape, dtype,
          [i \in 1..(shape[1] * shape[2]) |-> PatSample(seed, plane, i, dtype)])

PatFrame(self, seed) ==
    [y |-> PatPlane(self.y_shape, self.dtype, seed, 0),
     u |-> PatPlane(self.uv_shape, self.dtype, seed, 1),
     v |-> PatPlane(self.uv_shape, self.dtype, seed, 2)]

\* The patterns a caller draws the frames to write from
Seeds == {0, 1}

\* Content of a file that exists before the program runs
InitContent(len) == [i \in 1..len |-> (101 + i * 7) % 256]

NoWriter == [cfg |-> <<>>, intact |-> FALSE, closed |-> FALSE]

Init ==
    /\ \E len \in 0..MaxFileLen : fs = [n \in {FileName} |-> InitContent(len)]
    /\ codec = NoObject
    /\ ret = Outcome("none", NoError, "none")
    /\ written = <<>>
    /\ readback = <<>>
    /\ wstat = NoWriter
    /\ conv = Idle
    /\ mpc = "idle" /\ opts = Idle /\ handle = NoObject /\ ohandle = NoObject
    /\ frame = 0 /\ yuv = Idle /\ closes = Idle

\* YuvFile(name, mode, width, height, colour, depth)
DoConstruct ==
    \E mode \in {"r", "w"}, a \in IoArgs :
       /\ codec' = YuvFile(FileName, mode, a[1], a[2], a[3], a[4])
       /\ ret' = Outcome("init", NoError, "ok")
       /\ readback' = <<>>
       /\ UNCHANGED <<fs, written, wstat, conv, mainVars>>

\* codec.open(), the built-in open succeeding
DoOpen ==
    /\ codec # NoObject
    /\ LET r == open(codec, fs[codec.name])
       IN /\ codec' = r.self
          /\ fs' = [fs EXCEPT ![codec.name] = r.content]
    /\ ret' = Outcome("open", NoError, "ok")
    /\ readback' = <<>>
    /\ IF codec.mode = "w"
       THEN /\ written' = <<>>
            /\ wstat' = [cfg |-> Cfg(codec), intact |-> TRUE, closed |-> FALSE]
       ELSE UNCHANGED <<written, wstat>>
    /\ UNCHANGED <<conv, mainVars>>

\* codec.open(), the built-in open raising IOError: self.handle is not assigned
DoOpenFail ==
    /\ codec # NoObject
    /\ ret' = Outcome("open", IOError, "error")
    /\ UNCHANGED <<fs, codec, written, readback, wstat, conv, mainVars>>

\* codec.close()
DoClose ==
    /\ codec # NoObject
    /\ LET r == close(codec)
       IN /\ codec' = r.self
          /\ ret' = Outcome("close", r.exc, IF r.exc = NoError THEN "ok" ELSE "error")
          /\ wstat' = IF r.exc = NoError /\ codec.mode = "w" /\ codec.handle.st = "open"
                      THEN [wstat EXCEPT !.closed = TRUE] ELSE wstat
    /\ UNCHANGED <<fs, written, readback, conv, mainVars>>

\* codec.read_frame()
DoReadFrame ==
    /\ codec # NoObject
    /\ LET r == read_frame(codec, fs[codec.name])
           kind == IF r.exc # NoError THEN "error"
                   ELSE IF IsSentinel(r.y, r.u, r.v) THEN "eos" ELSE "frame"
       IN /\ codec' = [codec EXCEPT !.handle = r.handle]
          /\ ret' = [op |-> "read_frame", exc |-> r.exc, kind |-> kind,
                     y |-> r.y, u |-> r.u, v |-> r.v, got |-> r.got]
          /\ readback' = IF kind = "frame"
                         THEN Append(readback, [y |-> r.y, u |-> r.u, v |-> r.v])
                         ELSE readback
    /\ UNCHANGED <<fs, written, wstat, conv, mainVars>>

\* codec.write_frame(y, u, v) on a device that accepts room more bytes:
\* plenty, none, or the Y plane and one byte.  At most MaxFrames frames are
\* written through one handle, and none after a write that failed half-way.
DoWriteFrame ==
    /\ codec # NoObject
    /\ Len(written) < MaxFrames
    /\ wstat.intact \/ codec.mode = "r" \/ codec.handle.st # "open"
    /\ \E seed \in Seeds :
       LET f == PatFrame(codec, seed)
       IN \E room \in {DiskRoom, 0, Size(f.y) * ItemSize(codec.dtype) + 1} :
          LET r == write_frame(codec, fs[codec.name], f.y, f.u, f.v, room)
              same == r.content = fs[codec.name]
          IN /\ codec' = [codec EXCEPT !.handle = r.handle]
             /\ fs' = [fs EXCEPT ![codec.name] = r.content]
             /\ ret' = Outcome("write_frame", r.exc,
                               IF r.exc = NoError THEN "ok" ELSE "error")
             /\ written' = IF r.exc = NoError THEN Append(written, f) ELSE written
             /\ wstat' = IF r.exc = NoError \/ same THEN wstat
                         ELSE [wstat EXCEPT !.intact = FALSE]
    /\ UNCHANGED <<readback, conv, mainVars>>

Next ==
    \/ DoConstruct
    \/ DoOpen
    \/ DoOpenFail
    \/ DoClose
    \/ DoReadFrame
    \/ DoWriteFrame

Spec == Init /\ [][Next]_vars

----------------------------------------------------------------------------
(* Properties of the YuvFile object (checked under Spec) *)

\* A geometry, chroma mode and bit depth the documentation allows
ValidCfg(self) ==
    /\ self.width > 0 /\ self.height > 0
    /\ self.width % 2 = 0 /\ self.height % 2 = 0
    /\ self.colour \in {CSPACE_420, CSPACE_422}
    /\ self.depth \in {DEPTH_8, DEPTH_10}

VFactorOf(self) == IF self.colour = CSPACE_420 THEN 2 ELSE 1
LumaSize(self) == self.height * self.width
ChromaSize(self) == (self.height \div VFactorOf(self)) * (self.width \div 2)
ElementWidth(self) == IF self.depth = DEPTH_10 THEN 2 ELSE 1
FrameBytes(self) == ElementWidth(self) * (LumaSize(self) + 2 * ChromaSize(self))

IsOpen == codec.handle.st = "open"

\* C1: on an open codec of valid geometry, read_frame returns a frame (Y at
\* luma shape, U and V at chroma shape) iff the Y, U and V reads each obtain
\* exactly the expected sample count; when a read comes back short it returns
\* three empty arrays; it raises no error.
C1_FrameIffAllReadsFull ==
    (ret.op = "read_frame" /\ IsOpen /\ ValidCfg(codec)) =>
      LET want == <<LumaSize(codec), ChromaSize(codec), ChromaSize(codec)>>
          chroma == <<codec.height \div VFactorOf(codec), codec.width \div 2>>
      IN /\ ret.exc = NoError
         /\ ret.kind \in {"frame", "eos"}
         /\ ret.kind = "frame" <=> ret.got = want
         /\ ret.kind = "frame" =>
              /\ ret.y.shape = <<codec.height, codec.width>>
              /\ ret.u.shape = chroma /\ ret.v.shape = chroma
              /\ Size(ret.y) = want[1] /\ Size(ret.u) = want[2]
              /\ Size(ret.v) = want[3]
         /\ ret.kind = "eos" =>
              /\ Size(ret.y) = 0 /\ Size(ret.u) = 0 /\ Size(ret.v) = 0
              /\ Len(ret.got) \in 1..3
              /\ ret.got[Len(ret.got)] < want[Len(ret.got)]
              /\ \A j \in 1..(Len(ret.got) - 1) : ret.got[j] = want[j]
              /\ codec.mode = "r" =>
                   Len(fs[codec.name]) - codec.handle.pos < FrameBytes(codec)

\* One full 4x2 4:2:0 8-bit frame followed by 3 bytes: the second
\* read_frame has returned the three empty arrays
C1_Witness ==
    /\ ret.op = "read_frame" /\ ret.kind = "eos" /\ ret.exc = NoError
    /\ IsOpen /\ codec.mode = "r"
    /\ Cfg(codec) = <<4, 2, CSPACE_420, DEPTH_8>>
    /\ Len(fs[codec.name]) = 12 + 3
    /\ Len(readback) = 1
    /\ ret.got = <<3>>

\* The reader of a round trip: the file holds exactly the frames one writer
\* of the same geometry and depth wrote and closed
RoundTripCase ==
    /\ codec.mode = "r" /\ IsOpen /\ ValidCfg(codec)
    /\ wstat.intact /\ wstat.closed /\ wstat.cfg = Cfg(codec)

\* C2: n frames written in order through one codec, the codec closed, then
\* read with a codec of the same geometry and depth: the i-th read_frame
\* returns the i-th frame bit for bit, and the (n+1)-th the empty arrays.
C2_RoundTrip ==
    RoundTripCase =>
      /\ Len(readback) <= Len(written)
      /\ \A i \in 1..Len(readback) : readback[i] = written[i]
      /\ ret.op = "read_frame" =>
           /\ ret.kind \in {"frame", "eos"}
           /\ ret.kind = "eos" => Len(readback) = Len(written)

\* Two 10-bit frames were written, read back, and the third read ended
C2_Witness ==
    /\ RoundTripCase
    /\ codec.depth = DEPTH_10
    /\ Len(written) = 2 /\ written[1] # written[2]
    /\ readback = written
    /\ ret.op = "read_frame" /\ ret.kind = "eos"

\* C5: while the codec stays open the stream offset never decreases; a
\* read_frame that returns a frame and a write_frame that succeeds advance
\* it by element_width * (H*W + 2*(H/v)*(W/2)); after k frame reads from
\* the start it is k times that.
C5_OffsetAdvances ==
    /\ [][(IsOpen /\ codec'.handle.st = "open"
           /\ ret'.op \in {"read_frame", "write_frame"}) =>
            /\ codec'.handle.pos >= codec.handle.pos
            /\ (ValidCfg(codec) /\ ret'.kind \in {"frame", "ok"}) =>
                 codec'.handle.pos = codec.handle.pos + FrameBytes(codec)]_vars
    /\ [](IsOpen /\ ValidCfg(codec) /\ codec.mode = "r"
          /\ ret.op = "read_frame" /\ ret.kind = "frame" =>
            codec.handle.pos = Len(readback) * FrameBytes(codec))

\* Two 4:2:0 frames have been read from the start of a stream
C5_Witness ==
    /\ IsOpen /\ codec.mode = "r"
    /\ Cfg(codec) = <<2, 2, CSPACE_420, DEPTH_8>>
    /\ ret.op = "read_frame" /\ ret.kind = "frame"
    /\ Len(readback) = 2
    /\ codec.handle.pos = 12

\* C6: construction opens no file; open() moves Constructed to Open, and
\* leaves the state alone when it fails; close() moves Open to Closed;
\* read_frame and write_frame outside Open raise an error: no frame, no
\* empty arrays, no byte written.
C6_StateMachine ==
    /\ [](ret.op = "init" => codec.handle.st = "none")
    /\ [][/\ (ret'.op = "open" /\ ret'.kind = "ok") => codec'.handle.st = "open"
          /\ (ret'.op = "open" /\ ret'.kind = "error") =>
                codec'.handle = codec.handle /\ fs' = fs
          /\ (ret'.op = "close" /\ IsOpen) => codec'.handle.st = "closed"
          /\ (ret'.op \in {"read_frame", "write_frame"} /\ ~IsOpen) =>
                /\ ret'.kind = "error" /\ ret'.exc # NoError
                /\ fs' = fs
                /\ codec' = codec
                /\ readback' = readback /\ written' = written]_vars

\* A codec was opened and closed, and read_frame then failed
C6_Witness ==
    /\ codec.handle.st = "closed"
    /\ ret.op = "read_frame" /\ ret.kind = "error"

\* C7: no codec object with an invalid geometry, chroma mode or bit depth
\* ever exists: construction fails on it.
C7_NoInvalidObject ==
    codec # NoObject => ValidCfg(codec)

----------------------------------------------------------------------------
(* main(): the frame-processing driver.  parse_options has validated the   *)
(* options: the input file exists, the geometry, colour space and depth    *)
(* are valid, first >= 0, and frames and plot are None (0 here) or > 0.    *)
(* An exception is not caught anywhere in main: it ends the program.       *)

InName == "in.yuv"
OutName == "out.yuv"

MainArgs == {<<2, 2, CSPACE_420, DEPTH_8>>, <<2, 2, CSPACE_422, DEPTH_10>>}

\* An input file of n frames followed by tail bytes
RECURSIVE InputContent(_, _, _)
InputContent(self, n, tail) ==
    IF n = 0 THEN InitContent(tail)
    ELSE LET f == PatFrame(self, n % 2)
         IN Serialise(f.y.data, f.y.dtype) \o Serialise(f.u.data, f.u.dtype)
            \o Serialise(f.v.data, f.v.dtype) \o InputContent(self, n - 1, tail)

NoFrame == [y |-> EmptyArray, u |-> EmptyArray, v |-> EmptyArray]

InitMain ==
    /\ \E a \in MainArgs, out \in BOOLEAN, first \in 0..MaxCount,
          frames \in 0..MaxCount, plot \in 0..MaxCount,
          n \in 0..MaxFileFrames, tail \in {0, 3} :
         /\ opts = [input |-> InName, output |-> IF out THEN OutName ELSE "",
                    width |-> a[1], height |-> a[2], colour |-> a[3],
                    depth |-> a[4], first |-> first, frames |-> frames,
                    plot |-> plot]
         /\ fs = [name \in {InName, OutName} |->
                    IF name = InName
                    THEN InputContent(YuvFile(InName, "r", a[1], a[2], a[3], a[4]),
                                      n, tail)
                    ELSE <<>>]
    /\ mpc = "start"
    /\ handle = NoObject /\ ohandle = NoObject
    /\ frame = 0
    /\ yuv = NoFrame
    /\ closes = [in_opened |-> FALSE, in_closed |-> 0,
                 out_opened |-> FALSE, out_closed |-> 0]
    /\ codec = NoObject /\ ret = Idle /\ written = <<>> /\ readback = <<>>
    /\ wstat = Idle /\ conv = Idle

\* lines 174-177: the two objects are constructed
MainConstruct ==
    /\ mpc = "start"
    /\ handle' = YuvFile(opts.input, "r", opts.width, opts.height,
                         opts.colour, opts.depth)
    /\ ohandle' = IF opts.output # ""
                  THEN YuvFile(opts.output, "w", opts.width, opts.height,
                               opts.colour, opts.depth)
                  ELSE NoObject
    /\ mpc' = "open_in"
    /\ UNCHANGED <<fs, opts, frame, yuv, closes, codec, ret, written,
                   readback, wstat, conv>>

\* line 178: handle.open()
MainOpenInput ==
    /\ mpc = "open_in"
    /\ LET r == open(handle, fs[handle.name])
       IN /\ handle' = r.self
          /\ fs' = [fs EXCEPT ![handle.name] = r.content]
    /\ closes' = [closes EXCEPT !.in_opened = TRUE]
    /\ mpc' = "open_out"
    /\ UNCHANGED <<opts, ohandle, frame, yuv, codec, ret, written, readback,
                   wstat, conv>>

\* line 178 raising IOError (the file is not readable)
MainOpenInputRaises ==
    /\ mpc = "open_in"
    /\ mpc' = "raised"
    /\ UNCHANGED <<fs, opts, handle, ohandle, frame, yuv, closes, codec, ret,
                   written, readback, wstat, conv>>

\* lines 179-181: ohandle.open() if there is an output; frame = 0
MainOpenOutput ==
    /\ mpc = "open_out"
    /\ IF ohandle # NoObject
       THEN LET r == open(ohandle, fs[ohandle.name])
            IN /\ ohandle' = r.self
               /\ fs' = [fs EXCEPT ![ohandle.name] = r.content]
               /\ closes' = [closes EXCEPT !.out_opened = TRUE]
       ELSE UNCHANGED <<ohandle, fs, closes>>
    /\ frame' = 0
    /\ mpc' = "loop"
    /\ UNCHANGED <<opts, handle, yuv, codec, ret, written, readback, wstat, conv>>

\* line 180 raising IOError (the output path cannot be written)
MainOpenOutputRaises ==
    /\ mpc = "open_out"
    /\ ohandle # NoObject
    /\ mpc' = "raised"
    /\ UNCHANGED <<fs, opts, handle, ohandle, frame, yuv, closes, codec, ret,
                   written, readback, wstat, conv>>

\* line 182: the while condition
LoopCondition == opts.frames = 0 \/ frame < opts.first + opts.frames

\* lines 182-185: the loop goes on; read_frame; no sample read ends the loop
MainRead ==
    /\ mpc = "loop"
    /\ LoopCondition
    /\ LET r == read_frame(handle, fs[handle.name])
       IN /\ handle' = [handle EXCEPT !.handle = r.handle]
          /\ yuv' = [y |-> r.y, u |-> r.u, v |-> r.v]
          /\ mpc' = IF r.exc # NoError THEN "raised"
                    ELSE IF Size(r.y) = 0 THEN "close_in" ELSE "body"
    /\ UNCHANGED <<fs, opts, ohandle, frame, closes, codec, ret, written,
                   readback, wstat, conv>>

\* line 182: the requested number of frames has been processed
MainLoopEnds ==
    /\ mpc = "loop"
    /\ ~LoopCondition
    /\ mpc' = "close_in"
    /\ UNCHANGED <<fs, opts, handle, ohandle, frame, yuv, closes, codec, ret,
                   written, readback, wstat, conv>>

\* line 188: this frame is displayed
PlotDue ==
    /\ frame >= opts.first
    /\ opts.plot > 0
    /\ (frame - opts.first) % opts.plot = 0

\* lines 186-194: display (to_rgb_8b), write_frame on a device that
\* accepts room more bytes, frame += 1
MainBody ==
    /\ mpc = "body"
    /\ \E room \in {DiskRoom, Size(yuv.y) * ItemSize(yuv.y.dtype) + 1} :
         LET rgb == to_rgb_8b(handle, yuv.y, yuv.u, yuv.v)
             writes == frame >= opts.first /\ ohandle # NoObject
             w == write_frame(ohandle, fs[OutName], yuv.y, yuv.u, yuv.v, room)
         IN IF PlotDue /\ rgb.exc # NoError
            THEN /\ mpc' = "raised"
                 /\ UNCHANGED <<ohandle, fs, frame>>
            ELSE IF writes
            THEN /\ ohandle' = [ohandle EXCEPT !.handle = w.handle]
                 /\ fs' = [fs EXCEPT ![OutName] = w.content]
                 /\ mpc' = IF w.exc = NoError THEN "loop" ELSE "raised"
                 /\ frame' = IF w.exc = NoError THEN frame + 1 ELSE frame
            ELSE /\ room = DiskRoom
                 /\ UNCHANGED <<ohandle, fs>>
                 /\ mpc' = "loop"
                 /\ frame' = frame + 1
    /\ UNCHANGED <<opts, handle, yuv, closes, codec, ret, written, readback,
                   wstat, conv>>

\* lines 189-191 raising (the display cannot be shown)
MainPlotRaises ==
    /\ mpc = "body"
    /\ PlotDue
    /\ mpc' = "raised"
    /\ UNCHANGED <<fs, opts, handle, ohandle, frame, yuv, closes, codec, ret,
                   written, readback, wstat, conv>>

\* line 195: handle.close()
MainCloseInput ==
    /\ mpc = "close_in"
    /\ handle' = close(handle).self
    /\ closes' = [closes EXCEPT !.in_closed = @ + 1]
    /\ mpc' = "close_out"
    /\ UNCHANGED <<fs, opts, ohandle, frame, yuv, codec, ret, written,
                   readback, wstat, conv>>

\* lines 196-199: ohandle.close() if there is an output; return 0
MainCloseOutput ==
    /\ mpc = "close_out"
    /\ IF ohandle # NoObject
       THEN /\ ohandle' = close(ohandle).self
            /\ closes' = [closes EXCEPT !.out_closed = @ + 1]
       ELSE UNCHANGED <<ohandle, closes>>
    /\ mpc' = "done"
    /\ UNCHANGED <<fs, opts, handle, frame, yuv, codec, ret, written,
                   readback, wstat, conv>>

NextMain ==
    \/ MainConstruct
    \/ MainOpenInput
    \/ MainOpenInputRaises
    \/ MainOpenOutput
    \/ MainOpenOutputRaises
    \/ MainRead
    \/ MainLoopEnds
    \/ MainBody
    \/ MainPlotRaises
    \/ MainCloseInput
    \/ MainCloseOutput

SpecMain == InitMain /\ [][NextMain]_vars

\* main() has returned or has been ended by an exception
MainOver == mpc \in {"done", "raised"}

\* C9: on every path out of main, every codec whose open() succeeded has
\* been closed exactly once; none is left open.
C9_OpenedHandlesClosedOnce ==
    MainOver =>
      /\ closes.in_opened =>
           closes.in_closed = 1 /\ handle.handle.st = "closed"
      /\ closes.out_opened =>
           closes.out_closed = 1 /\ ohandle.handle.st = "closed"

====
